---- MODULE Spec2Model ----
(***************************************************************************)
(* A model of ic-netprobe: the measurement cycle of ICNetProbe             *)
(* (src/ic_netprobe.py) over the two SQLite tables, and the read queries   *)
(* of the HTTP layer (src/api.py).                                         *)
(*                                                                         *)
(* The worker is one sequential process; pc is its position.  Every        *)
(* external call (directory fetch, provider create/poll, webhook POST,     *)
(* SQLite statement) is one step whose outcome is chosen by the            *)
(* environment.                                                            *)
(*                                                                         *)
(* Spec is the worker: main's loop of cycle, digest and sleep.  The        *)
(* readers of stored payloads are functions of their input and have a      *)
(* specification each, whose initial states are the inputs: SpecVerdict    *)
(* (the result table), SpecQuery (the failing-nodes query) and SpecReport  *)
(* (the daily report).  SpecAlert follows one finished payload from the    *)
(* alert text through the insert to the two readers.  SpecLive is one      *)
(* call of run_measurement_cycle under fairness, for progress.             *)
(***************************************************************************)
EXTENDS Integers, Sequences, FiniteSets, TLC

\* ---------------------------------------------------------------- bounds
MaxCycles == 2      \* iterations of main's while-loop that are explored
MaxPolls == 1       \* "not finished" poll answers counted per measurement
MaxFetchLen == 2    \* node descriptors in one directory response
StartHour == 20     \* hour of the day (UTC) at which the first iteration starts
MaxRecords == 3     \* probe-location records in one payload that is read back
MaxTicks == 6       \* iterations before the moment a query is answered

\* ------------------------------------------------------ program constants
RetryLimit == 5         \* attempt < 5
RateLimited == 429      \* e.response.status_code == 429
BackoffUnit == 1000     \* (2 ** attempt) * 1000
ReportEveryHours == 6   \* total_seconds() >= 6 * 60 * 60
SleepHours == 6         \* time.sleep(6 * 60 * 60)
WindowHours == 24       \* timedelta(hours=24); hours: int = 24
LatencyThreshold == 1000    \* stats.get('avg', 0) > 1000

\* ------------------------------------------------------------ value sets
NodeIds == {"n1", "n2"}
Addrs == {"a1", "a2"}
Regions == {"r1"}
DcNames == {"dc1"}
MeasIds == {"m1", "m2"}
Missing == "MISSING"    \* the key is absent from the JSON object
Null == "NULL"          \* the key is present with value null / SQL NULL
NotFound == "404"

\* A probe-location record of a provider payload: its packet loss and
\* average RTT, found under record['result']['stats'] ("nested") or under
\* record['stats'] ("flat"); NullRec is a record that
\* is not a JSON object.
NullRec == [shape |-> "null", loss |-> -1, avg |-> -1]
HealthyRec == [shape |-> "nested", loss |-> 0, avg |-> 100]

\* Provider payloads (the JSON a poll returns).
NoResult == [status |-> "none", hasResults |-> FALSE, results |-> <<>>]
InProgressPayload == [status |-> "in-progress", hasResults |-> TRUE, results |-> <<>>]
FinishedPayloads ==
    { [status |-> "finished", hasResults |-> TRUE, results |-> <<HealthyRec>>],
      [status |-> "finished", hasResults |-> FALSE, results |-> <<>>],
      [status |-> "finished", hasResults |-> TRUE, results |-> <<NullRec>>] }
PollAnswers == FinishedPayloads \cup {InProgressPayload}

\* The records and payloads that the readers of a payload (the result
\* table, the failing-nodes query, the report) are applied to.
Losses == {0, 5}
Avgs == {100, 200, 999, LatencyThreshold, LatencyThreshold + 1}
ProbeRecords == [shape : {"nested", "flat"}, loss : Losses, avg : Avgs]
ReadPayloads ==
    { [status |-> "finished", hasResults |-> TRUE, results |-> s] :
        s \in UNION { [1..k -> ProbeRecords] : k \in 0..MaxRecords } }

\* One-record payloads, and a payload without 'results'.
WindowPayloads ==
    { [status |-> "finished", hasResults |-> TRUE, results |-> << r >>] :
        r \in { x \in ProbeRecords : x.avg \in {100, LatencyThreshold + 1} } }
    \cup { [status |-> "finished", hasResults |-> FALSE, results |-> <<>>] }

\* Payloads of the rows a report is built from: one healthy record, one
\* lossy record, two lossy records, and two loss-free records with a lossy
\* one, in either shape.
ReportIds == {"m1", "m2", "m3", "m4"}
ReportResults ==
    { << [loss |-> 0, avg |-> 100] >>,
      << [loss |-> 5, avg |-> 100] >>,
      << [loss |-> 5, avg |-> 100], [loss |-> 5, avg |-> 200] >>,
      << [loss |-> 0, avg |-> 100], [loss |-> 0, avg |-> 200], [loss |-> 5, avg |-> 999] >> }
ReportPayloads ==
    { [status |-> "finished", hasResults |-> TRUE,
       results |-> [k \in DOMAIN s |-> [shape |-> sh, loss |-> s[k].loss, avg |-> s[k].avg]]] :
        s \in ReportResults, sh \in {"nested", "flat"} }

\* Outcomes of the webhook POST: 200, an HTTPError status, or another
\* exception (connection error).
PostOutcomes == {200, RateLimited, 500, -1}

\* Node descriptors of the directory response.
Descriptors ==
    [node_id : NodeIds \cup {Missing},
     ip_address : Addrs \cup {Missing, Null},
     region : Regions,
     dc_name : DcNames]

\* The mail environment: each variable is unset (Null) or set.
CompleteMail == [smtp_user |-> "u", smtp_password |-> "p", recipients_env |-> "ops"]
NoUserMail == [CompleteMail EXCEPT !.smtp_user = Null]
NoPasswordMail == [CompleteMail EXCEPT !.smtp_password = Null]
NoRecipientsMail == [CompleteMail EXCEPT !.recipients_env = Null]

\* The configurations the worker is started with.  The webhook setting is
\* read only by the alert path and the mail settings only by the digest, so
\* each mail setting is explored with one webhook setting; the settings
\* explored under --send-report are those of a single iteration.
Configurations ==
    { [webhook |-> TRUE, send_report |-> FALSE, mail |-> CompleteMail],
      [webhook |-> FALSE, send_report |-> FALSE, mail |-> NoUserMail],
      [webhook |-> TRUE, send_report |-> TRUE, mail |-> CompleteMail],
      [webhook |-> FALSE, send_report |-> TRUE, mail |-> NoPasswordMail],
      [webhook |-> FALSE, send_report |-> TRUE, mail |-> NoRecipientsMail] }

NoTime == -1            \* last_report_time = None
Space == 32             \* ' ' of CURRENT_TIMESTAMP's 'YYYY-MM-DD HH:MM:SS'
Tee == 84               \* 'T' of datetime.isoformat()

SeqsUpTo(S, n) == UNION { [1..k -> S] : k \in 0..n }

\* Directory responses: the request or the JSON parsing fails ("error"),
\* the body is not a dict with a 'nodes' key ("malformed"; it may still
\* carry descriptors elsewhere), or data['nodes'] is a list of descriptors.
StrayNodes ==
    { <<>>, << [node_id |-> "n1", ip_address |-> "a1", region |-> "r1", dc_name |-> "dc1"] >> }

Responses ==
    { [kind |-> k, nodes |-> s] : k \in {"error", "malformed"}, s \in StrayNodes }
    \cup { [kind |-> "ok", nodes |-> s] : s \in SeqsUpTo(Descriptors, MaxFetchLen) }

\* what the directory answered: a failure, a malformed body, an empty node
\* collection, or descriptors
KindOf(resp) ==
    IF resp.kind # "ok" THEN resp.kind
    ELSE IF resp.nodes = <<>> THEN "empty" ELSE "ok"

VARIABLES
    webhook,         \* self.google_chat_webhook is set
    cycle,           \* iterations of main's loop started so far (the clock)
    pc,              \* position of the worker
    nodes,           \* table nodes: a set of rows
    measurements,    \* table measurements: a set of rows
    fetched,         \* nodes returned by fetch_nodes, until store_nodes returns
    stored_nodes,    \* the listing of run_measurement_cycle
    index,           \* loop index of the current node (1-based)
    measurement_id,  \* id returned by create_measurement
    result,          \* payload returned by poll_measurement
    attempt,         \* attempt of send_google_chat_notification, 0 before it
    polls,           \* unfinished poll answers seen for measurement_id
    lc,              \* history: lifecycle state of each listed node
    cyc,             \* history: create-requests and pacing sleeps of the cycle
    delays,          \* history: backoff delays slept for the current alert
    last_status,     \* history: outcome of the last POST of the current alert
    invoked,         \* history: alert-path invocations for the current node
    delivered,       \* history: messages delivered for the current node
    err,             \* history: the step whose exception abandoned the node
    finished_ids,    \* history: ids whose polling returned "finished"
    archive,         \* history: every row ever inserted into measurements
    lastUp,          \* history: per node_id the row of its last upsert
    synced,          \* history: node_ids committed by this cycle's store_nodes,
                     \* until the listing is taken
    send_report,     \* args.send_report
    mail,            \* SMTP_USER, SMTP_PASSWORD, ALERT_EMAIL_RECIPIENTS
    last_report_time,\* main's last_report_time, in hours; NoTime is None
    digest,          \* history: what send_email_report did in this iteration
    resp_kind,       \* history: KindOf the directory response, until the listing
    before,          \* history: table nodes when store_nodes was called,
                     \* until the listing
    cycle_err,       \* history: why the last run_measurement_cycle was
                     \* abandoned, until the next one fetches
    insert_failed,   \* history: a measurement insert of this cycle raised,
                     \* until the next create-request or the end of the cycle
    verdicts,        \* the Status column of the result table, row by row
    failing,         \* node_ids returned by get_failing_nodes
    report,          \* what generate_daily_report computed
    message          \* the text composed by send_google_chat_notification

vars == << webhook, cycle, pc, nodes, measurements, fetched, stored_nodes,
           index, measurement_id, result, attempt, polls, lc, cyc, delays,
           last_status, invoked, delivered, err, finished_ids, archive, lastUp,
           synced, send_report, mail, last_report_time, digest, resp_kind,
           before, cycle_err, insert_failed, verdicts, failing, report,
           message >>

readVars == << verdicts, failing, report, message >>

syncVars == << resp_kind, before, cycle_err, insert_failed >>

mainVars == << send_report, mail, last_report_time, digest >>
dbVars == << nodes, measurements, archive, lastUp >>
nodeVars == << measurement_id, result, attempt, polls, delays, last_status,
               invoked, delivered, err >>
cycleVars == << fetched, stored_nodes, index, lc, cyc, synced >>

NoRow == [node_id |-> Missing, ipv6 |-> Missing, region |-> Missing, dc_name |-> Missing]

NoReport == [raised |-> FALSE, stats |-> <<>>]

NoMessage == [kind |-> "none", failed |-> {}, high |-> {}]

\* the locals of main and of run_measurement_cycle, and the histories,
\* before the first iteration
AtRest ==
    /\ last_report_time = NoTime
    /\ digest = "none"
    /\ resp_kind = "none"
    /\ before = {}
    /\ cycle_err = "none"
    /\ insert_failed = FALSE
    /\ verdicts = <<>>
    /\ failing = {}
    /\ report = NoReport
    /\ message = NoMessage
    /\ fetched = <<>>
    /\ stored_nodes = <<>>
    /\ index = 0
    /\ measurement_id = Missing
    /\ attempt = 0
    /\ polls = 0
    /\ lc = <<>>
    /\ cyc = <<>>
    /\ delays = <<>>
    /\ last_status = 0
    /\ invoked = 0
    /\ delivered = 0
    /\ err = "none"
    /\ finished_ids = {}
    /\ synced = {}

Init ==
    /\ \E c \in Configurations :
          /\ webhook = c.webhook
          /\ send_report = c.send_report
          /\ mail = c.mail
    /\ AtRest
    /\ cycle = 0
    /\ pc = "main"
    /\ nodes = {}
    /\ measurements = {}
    /\ result = NoResult
    /\ archive = {}
    /\ lastUp = [n \in NodeIds |-> NoRow]

\* ------------------------------------------------------- registry sync

\* 'node_id' in node and 'ip_address' in node
ValidDescriptor(d) == d.node_id # Missing /\ d.ip_address # Missing

\* the dict appended to nodes (status and node_type are only logged)
Normalize(d) ==
    [node_id |-> d.node_id, ipv6 |-> d.ip_address,
     region |-> d.region, dc_name |-> d.dc_name]

RECURSIVE ExtractNodes(_)
ExtractNodes(s) ==
    IF s = <<>> THEN <<>>
    ELSE (IF ValidDescriptor(Head(s)) THEN <<Normalize(Head(s))>> ELSE <<>>)
         \o ExtractNodes(Tail(s))

\* A buggy fetch that takes the descriptors of any response.
fetch_nodes_keep(resp) == ExtractNodes(resp.nodes)

\* fetch_nodes: [] on a request/JSON error or a response without 'nodes'
fetch_nodes(resp) ==
    IF resp.kind # "ok" THEN <<>> ELSE ExtractNodes(resp.nodes)

\* A buggy upsert that inserts without replacing the row of the same key.
UpsertNode_noreplace(tbl, node) == tbl \cup {node}

\* INSERT OR REPLACE INTO nodes: the row with the same primary key goes
UpsertNode(tbl, node) == { r \in tbl : r.node_id # node.node_id } \cup {node}

RECURSIVE store_nodes(_, _)
store_nodes(tbl, ns) ==
    IF ns = <<>> THEN tbl
    ELSE store_nodes(UpsertNode(tbl, Head(ns)), Tail(ns))

\* ipv6 TEXT NOT NULL: a null address makes the INSERT raise IntegrityError
StoreNodesRaises(ns) == \E i \in 1..Len(ns) : ns[i].ipv6 = Null

\* every order in which SELECT node_id, ipv6 FROM nodes may return the rows
Listings(tbl) ==
    { s \in [1..Cardinality(tbl) -> { [node_id |-> r.node_id, ipv6 |-> r.ipv6] : r \in tbl }] :
        \A i, j \in 1..Cardinality(tbl) : i # j => s[i] # s[j] }

\* A cycle whose exceptions are not caught: the process dies.
OnCycleError_crash == "crashed"

\* except Exception of run_measurement_cycle: the error is printed and the
\* function returns
OnCycleError == "cycle_aborted"

\* main: probe.run_measurement_cycle() of the next iteration
StartCycle ==
    /\ pc = "main"
    /\ cycle < MaxCycles
    /\ cycle' = cycle + 1
    /\ pc' = "fetch"
    /\ UNCHANGED << webhook, mainVars, syncVars, readVars, dbVars, cycleVars, nodeVars, finished_ids >>

\* nodes = self.fetch_nodes()
FetchNodes ==
    /\ pc = "fetch"
    /\ \E resp \in Responses :
         /\ fetched' = fetch_nodes(resp)
         /\ resp_kind' = KindOf(resp)
    /\ cycle_err' = "none"
    /\ pc' = "store_nodes"
    /\ UNCHANGED << webhook, mainVars, readVars, before, insert_failed, cycle, dbVars, stored_nodes, index, lc, cyc, synced,
                    nodeVars, finished_ids >>

\* self.store_nodes(nodes): all rows are committed together, or the
\* statement raises (NOT NULL violated, database unavailable), nothing is
\* committed and the exception reaches the handler of the cycle.
StoreNodes ==
    /\ pc = "store_nodes"
    /\ \E dbok \in BOOLEAN :
         IF dbok /\ ~StoreNodesRaises(fetched)
         THEN /\ nodes' = store_nodes(nodes, fetched)
              /\ lastUp' = [n \in NodeIds |->
                              IF \E i \in 1..Len(fetched) : fetched[i].node_id = n
                              THEN fetched[CHOOSE i \in 1..Len(fetched) :
                                             /\ fetched[i].node_id = n
                                             /\ \A j \in (i+1)..Len(fetched) :
                                                  fetched[j].node_id # n]
                              ELSE lastUp[n]]
              /\ synced' = { fetched[i].node_id : i \in 1..Len(fetched) }
              /\ pc' = "list"
              /\ UNCHANGED cycle_err
         ELSE /\ pc' = OnCycleError
              /\ cycle_err' = IF dbok THEN "integrity" ELSE "storage"
              /\ UNCHANGED << nodes, lastUp, synced >>
    /\ fetched' = <<>>
    /\ before' = nodes
    /\ UNCHANGED << webhook, mainVars, readVars, resp_kind, insert_failed, cycle, measurements, archive, stored_nodes, index,
                    lc, cyc, nodeVars, finished_ids >>

\* cursor.execute("SELECT node_id, ipv6 FROM nodes"); fetchall()
ListNodes ==
    /\ pc = "list"
    /\ \E dbok \in BOOLEAN :
         IF dbok
         THEN /\ \E s \in Listings(nodes) : stored_nodes' = s
              /\ lc' = [i \in 1..Cardinality(nodes) |-> "Pending"]
              /\ pc' = "loop"
              /\ UNCHANGED cycle_err
         ELSE /\ pc' = OnCycleError
              /\ cycle_err' = "storage"
              /\ UNCHANGED << stored_nodes, lc >>
    /\ index' = 0
    /\ synced' = {}
    /\ UNCHANGED << webhook, mainVars, readVars, resp_kind, before, insert_failed, cycle, dbVars, fetched, cyc, nodeVars, finished_ids >>

\* for index, (node_id, ipv6) in enumerate(stored_nodes, 1)
LoopNext ==
    /\ pc = "loop"
    /\ IF index < Len(stored_nodes)
       THEN /\ index' = index + 1
            /\ pc' = "create"
       ELSE /\ pc' = "cycle_done"
            /\ UNCHANGED index
    /\ resp_kind' = "none"
    /\ before' = {}
    /\ UNCHANGED << webhook, mainVars, readVars, cycle_err, insert_failed, cycle, dbVars, fetched, synced, stored_nodes, lc,
                    cyc, nodeVars, finished_ids >>


\* ------------------------------------------------- per-node lifecycle

\* A buggy statement order: the row is stored before the result is logged
\* and the alert dispatched.
NextStep_store_first(step) ==
    CASE step = "create" -> "poll"
      [] step = "poll" -> "store"
      [] step = "store" -> "log"
      [] step = "log" -> "pace"

\* The statements of the loop body in their order: create_measurement,
\* poll_measurement, log_measurement_result, store_measurement, pacing.
NextStep(step) ==
    CASE step = "create" -> "poll"
      [] step = "poll" -> "log"
      [] step = "log" -> "store"
      [] step = "store" -> "pace"

\* except Exception as e: (of the loop body) print the error
NodeError(step) ==
    /\ pc' = "except"
    /\ err' = step
    /\ lc' = [lc EXCEPT ![index] = "Abandoned"]

\* The per-node history and locals, as at the start of a loop body.
ResetNode ==
    /\ measurement_id' = Missing
    /\ result' = NoResult
    /\ attempt' = 0
    /\ polls' = 0
    /\ delays' = <<>>
    /\ last_status' = 0
    /\ invoked' = 0
    /\ delivered' = 0
    /\ err' = "none"

\* measurement_id = self.create_measurement(ipv6): the POST returns an id,
\* or raises (RequestException re-raised by create_measurement)
CreateMeasurement ==
    /\ pc = "create"
    /\ cyc' = Append(cyc, [e |-> "create", i |-> index])
    /\ \E ok \in BOOLEAN :
         IF ok
         THEN /\ \E id \in MeasIds : measurement_id' = id
              /\ lc' = [lc EXCEPT ![index] = "Created"]
              /\ pc' = NextStep("create")
              /\ UNCHANGED err
         ELSE /\ NodeError("create")
              /\ UNCHANGED measurement_id
    /\ insert_failed' = FALSE
    /\ UNCHANGED << webhook, mainVars, resp_kind, before, cycle_err, readVars, cycle, dbVars, fetched, synced, stored_nodes, index, result,
                    attempt, polls, delays, last_status, invoked, delivered,
                    finished_ids >>

\* A buggy poll that returns whatever status the provider reports.
PollDone_any(status) == TRUE

\* if result['status'] == 'finished': return result
PollDone(status) == status = "finished"

\* A buggy poll that gives up on an unfinished measurement and lets the
\* driver go on to the next node.
AfterUnfinishedPoll_next == "loop"

\* A buggy poll with a timeout: an unfinished answer makes the driver give
\* the node up although nothing was raised.
AfterUnfinishedPoll_giveup == "except"

\* time.sleep(1) and the next iteration of while True
AfterUnfinishedPoll == "poll"

\* One request of poll_measurement: it raises (raise_for_status), or it
\* returns a payload; an unfinished payload is polled again, without limit
\* (polls counts the unfinished answers up to MaxPolls and stays there).
PollMeasurement ==
    /\ pc = "poll"
    /\ \/ /\ NodeError("poll")
          /\ UNCHANGED << result, polls, finished_ids >>
       \/ \E ans \in PollAnswers :
            IF PollDone(ans.status)
            THEN /\ result' = ans
                 /\ finished_ids' = IF ans.status = "finished"
                                    THEN finished_ids \cup {measurement_id}
                                    ELSE finished_ids
                 /\ lc' = [lc EXCEPT ![index] = "Classified"]
                 /\ polls' = 0
                 /\ pc' = NextStep("poll")
                 /\ UNCHANGED err
            ELSE /\ polls' = IF polls < MaxPolls THEN polls + 1 ELSE polls
                 /\ lc' = [lc EXCEPT ![index] = "Polling"]
                 /\ pc' = AfterUnfinishedPoll
                 /\ UNCHANGED << result, err, finished_ids >>
    /\ UNCHANGED << webhook, mainVars, syncVars, readVars, cycle, dbVars, fetched, synced, stored_nodes, index, cyc,
                    measurement_id, attempt, delays, last_status, invoked,
                    delivered >>

\* A buggy guard that never dispatches the alert.
AlertDue_never(res) == FALSE

\* if 'results' in result: (the summary and the notification)
AlertDue(res) == res.hasResults

\* 'probe' in probe_result raises TypeError on a record that is no object
RenderRaises(res) ==
    res.hasResults /\ \E k \in 1..Len(res.results) : res.results[k] = NullRec

\* log_measurement_result up to asyncio.run(send_google_chat_notification)
LogMeasurementResult ==
    /\ pc = "log"
    /\ IF RenderRaises(result)
       THEN /\ NodeError("log")
            /\ UNCHANGED << attempt, invoked >>
       ELSE IF AlertDue(result)
       THEN /\ invoked' = invoked + 1
            /\ attempt' = 1
            /\ pc' = "notify"
            /\ UNCHANGED << lc, err >>
       ELSE /\ pc' = NextStep("log")
            /\ UNCHANGED << lc, err, attempt, invoked >>
    /\ UNCHANGED << webhook, mainVars, syncVars, readVars, cycle, dbVars, fetched, synced, stored_nodes, index, cyc,
                    measurement_id, result, polls, delays, last_status,
                    delivered, finished_ids >>

\* A buggy retry test with the limit off by one.
ShouldRetry_six(status, att) == status = RateLimited /\ att < RetryLimit + 1

\* A buggy retry test that retries every HTTP error.
ShouldRetry_any(status, att) == att < RetryLimit

\* e.response.status_code == 429 and attempt < 5
ShouldRetry(status, att) == status = RateLimited /\ att < RetryLimit

\* delay = (2 ** attempt) * 1000
BackoffDelay(att) == (2 ^ att) * BackoffUnit

\* send_google_chat_notification returns to log_measurement_result, which
\* returns to the loop body.
LeaveNotify ==
    /\ pc' = NextStep("log")
    /\ UNCHANGED << attempt, delays >>

\* One attempt of send_google_chat_notification: skipped without a webhook;
\* else the POST succeeds, or fails with an HTTP status or another exception.
\* An alert path whose failure reaches the handler of the node.
AfterFailedSend_abandon == "except"

\* the except branches of send_google_chat_notification print the failure
\* and return: log_measurement_result returns and the node is stored
AfterFailedSend == NextStep("log")

SendNotification ==
    /\ pc = "notify"
    /\ IF ~webhook
       THEN /\ LeaveNotify
            /\ UNCHANGED << last_status, delivered >>
       ELSE \E out \in PostOutcomes :
              /\ last_status' = out
              /\ IF out = 200
                 THEN /\ delivered' = delivered + 1
                      /\ LeaveNotify
                 ELSE /\ UNCHANGED delivered
                      /\ IF out # -1 /\ ShouldRetry(out, attempt)
                         THEN /\ pc' = "backoff"
                              /\ UNCHANGED << attempt, delays >>
                         ELSE /\ pc' = AfterFailedSend
                              /\ UNCHANGED << attempt, delays >>
    /\ UNCHANGED << webhook, mainVars, syncVars, readVars, cycle, dbVars, fetched, synced, stored_nodes, index, lc, cyc,
                    measurement_id, result, polls, invoked, err, finished_ids >>

\* time.sleep(delay / 1000); await send_google_chat_notification(.., attempt + 1)
Backoff ==
    /\ pc = "backoff"
    /\ delays' = Append(delays, BackoffDelay(attempt))
    /\ attempt' = attempt + 1
    /\ pc' = "notify"
    /\ UNCHANGED << webhook, mainVars, syncVars, readVars, cycle, dbVars, fetched, synced, stored_nodes, index, lc, cyc,
                    measurement_id, result, polls, last_status, invoked,
                    delivered, err, finished_ids >>

\* A buggy insert that replaces the row of the same id.
InsertMeasurement_replace(tbl, row) ==
    [ok |-> TRUE, tbl |-> { r \in tbl : r.id # row.id } \cup {row}]

\* A buggy insert that reports success without adding the row.
InsertMeasurement_drop(tbl, row) == [ok |-> TRUE, tbl |-> tbl]

\* INSERT INTO measurements: id is the primary key, a second row with the
\* same id raises IntegrityError and changes nothing
InsertMeasurement(tbl, row) ==
    IF \E r \in tbl : r.id = row.id
    THEN [ok |-> FALSE, tbl |-> tbl]
    ELSE [ok |-> TRUE, tbl |-> tbl \cup {row}]

\* the row of store_measurement; created_at defaults to CURRENT_TIMESTAMP
MeasurementRow ==
    [id |-> measurement_id,
     node_id |-> stored_nodes[index].node_id,
     target |-> stored_nodes[index].ipv6,
     created_at |-> cycle,
     status |-> result.status,
     result |-> result]

\* self.store_measurement(measurement_id, node_id, ipv6, result)
StoreMeasurement ==
    /\ pc = "store"
    /\ \E dbok \in BOOLEAN :
         LET ins == InsertMeasurement(measurements, MeasurementRow) IN
         IF dbok /\ ins.ok
         THEN /\ measurements' = ins.tbl
              /\ archive' = archive \cup {MeasurementRow}
              /\ lc' = [lc EXCEPT ![index] = "Stored"]
              /\ pc' = NextStep("store")
              /\ UNCHANGED << err, insert_failed >>
         ELSE /\ NodeError("store")
              /\ insert_failed' = TRUE
              /\ UNCHANGED << measurements, archive >>
    /\ UNCHANGED << webhook, mainVars, resp_kind, before, cycle_err, readVars, cycle, nodes, lastUp, fetched, synced, stored_nodes, index,
                    cyc, measurement_id, result, attempt, polls, delays,
                    last_status, invoked, delivered, finished_ids >>

\* if index < total_nodes: time.sleep(2)
Pace ==
    /\ pc = "pace"
    /\ cyc' = IF index < Len(stored_nodes)
              THEN Append(cyc, [e |-> "pace", i |-> index])
              ELSE cyc
    /\ pc' = "loop"
    /\ ResetNode
    /\ UNCHANGED << webhook, mainVars, syncVars, readVars, cycle, dbVars, fetched, synced, stored_nodes, index, lc,
                    finished_ids >>

\* A buggy handler that leaves the loop.
AfterExcept_break == "cycle_done"

\* continue
AfterExcept == "loop"

\* the end of the per-node handler
ExceptContinue ==
    /\ pc = "except"
    /\ pc' = AfterExcept
    /\ ResetNode
    /\ UNCHANGED << webhook, mainVars, syncVars, readVars, cycle, dbVars, cycleVars, finished_ids >>

\* A main loop that goes to sleep when the cycle was abandoned.
AfterRun_skip(p) == IF p = "cycle_aborted" THEN "sleep" ELSE "digest"

\* main, after probe.run_measurement_cycle(): the report test
AfterRun(p) == "digest"

\* run_measurement_cycle returns, after the loop or from its own handler
\* (except Exception: print), and main goes on.
EndCycle ==
    /\ pc \in {"cycle_done", "cycle_aborted"}
    /\ pc' = AfterRun(pc)
    /\ fetched' = <<>>
    /\ stored_nodes' = <<>>
    /\ index' = 0
    /\ lc' = <<>>
    /\ cyc' = <<>>
    /\ synced' = {}
    /\ resp_kind' = "none"
    /\ before' = {}
    /\ insert_failed' = FALSE
    /\ UNCHANGED << webhook, mainVars, readVars, cycle_err, cycle, dbVars, nodeVars,
                    finished_ids >>

\* ------------------------------------------------------------ the digest

\* a str / None setting in a boolean context
Truthy(v) == v # Null /\ v # ""

\* os.getenv("ALERT_EMAIL_RECIPIENTS", "").split(","): the list of the
\* comma-separated parts, [""] for the empty string
alert_recipients == IF mail.recipients_env = Null THEN <<"">> ELSE <<mail.recipients_env>>

\* all([self.smtp_user, self.smtp_password, self.alert_recipients]); a
\* list is true when it is not empty
MailConfigured ==
    /\ Truthy(mail.smtp_user)
    /\ Truthy(mail.smtp_password)
    /\ alert_recipients # <<>>

\* datetime.utcnow() of iteration c, in hours
Clock(c) == StartHour + SleepHours * (c - 1)

\* created_at as SQLite writes it, and a datetime as isoformat() writes it:
\* the date, the separator, the time of day
SqlText(h) == << h \div 24, Space, h % 24 >>
IsoText(h) == << h \div 24, Tee, h % 24 >>

\* a > b of two TEXT values (byte-wise, left to right)
TextGreater(a, b) ==
    \/ a[1] > b[1]
    \/ a[1] = b[1] /\ a[2] > b[2]
    \/ a[1] = b[1] /\ a[2] = b[2] /\ a[3] > b[3]

\* WHERE m.created_at > cutoff.isoformat()
InWindow(m, now, hours) ==
    TextGreater(SqlText(Clock(m.created_at)), IsoText(now - hours))

\* the rows of generate_daily_report's SELECT
ReportRows(now) ==
    { p \in nodes \X measurements :
        p[1].node_id = p[2].node_id /\ InWindow(p[2], now, WindowHours) }

\* conn = sqlite3.connect(self.db_path): no row_factory is set, the rows
\* are tuples
RowFactorySet == FALSE

\* row['node_id'] on a tuple raises TypeError, so the report is built only
\* from an empty row set
ReportRaises(now) == ReportRows(now) # {} /\ ~RowFactorySet

\* the statistics of one payload: lossy records and the latency sum and
\* count, over the records that have 'stats'
RECURSIVE RecordStats(_)
RecordStats(recs) ==
    IF recs = <<>> THEN [failed |-> 0, latency |-> 0, count |-> 0]
    ELSE LET r == Head(recs)
             t == RecordStats(Tail(recs))
         IN  IF r.shape # "flat" THEN t
             ELSE [failed |-> t.failed + (IF r.loss > 0 THEN 1 ELSE 0),
                   latency |-> t.latency + r.avg,
                   count |-> t.count + 1]

\* node['stats'] of a node with the rows ms: failure_rate is
\* failed_measurements / total_measurements * 100 and avg_latency is
\* total_latency / latency_count (0 when the count is 0)
RECURSIVE NodeStats(_)
NodeStats(ms) ==
    IF ms = {} THEN [total_measurements |-> 0, failed_measurements |-> 0,
                     total_latency |-> 0, latency_count |-> 0]
    ELSE LET m == CHOOSE x \in ms : TRUE
             t == NodeStats(ms \ {m})
             r == IF m.result.hasResults THEN RecordStats(m.result.results)
                  ELSE RecordStats(<<>>)
         IN  [total_measurements |-> t.total_measurements + 1,
              failed_measurements |-> t.failed_measurements + r.failed,
              total_latency |-> t.total_latency + r.latency,
              latency_count |-> t.latency_count + r.count]

\* generate_daily_report: the per-node statistics handed to the template,
\* or the exception of the row access
generate_daily_report(now) ==
    IF ReportRaises(now) THEN [raised |-> TRUE, stats |-> <<>>]
    ELSE [raised |-> FALSE,
          stats |-> [n \in { p[1].node_id : p \in ReportRows(now) } |->
                       NodeStats({ p[2] : p \in { q \in ReportRows(now) :
                                                     q[1].node_id = n } })]]

\* send_email_report: what it did, given whether the database and the SMTP
\* server answered
send_email_report(dbok, smtpok) ==
    IF ~MailConfigured THEN "skipped"
    ELSE IF ~dbok \/ ReportRaises(Clock(cycle)) THEN "report_failed"
    ELSE IF smtpok THEN "sent"
    ELSE "smtp_failed"

\* args.send_report or last_report_time is None or six hours have passed
ReportDue ==
    \/ send_report
    \/ last_report_time = NoTime
    \/ Clock(cycle) - last_report_time >= ReportEveryHours

\* main, after run_measurement_cycle returned: the digest when it is due,
\* then break under --send-report
MainDigest ==
    /\ pc = "digest"
    /\ IF ReportDue
       THEN /\ \E dbok, smtpok \in BOOLEAN : digest' = send_email_report(dbok, smtpok)
            /\ last_report_time' = Clock(cycle)
            /\ pc' = IF send_report THEN "exit" ELSE "sleep"
       ELSE /\ digest' = "not_due"
            /\ pc' = "sleep"
            /\ UNCHANGED last_report_time
    /\ UNCHANGED << webhook, send_report, mail, syncVars, readVars, cycle, dbVars,
                    cycleVars, nodeVars, finished_ids >>

\* time.sleep(6 * 60 * 60), then the next iteration
Sleep ==
    /\ pc = "sleep"
    /\ pc' = "main"
    /\ digest' = "none"
    /\ UNCHANGED << webhook, send_report, mail, last_report_time, syncVars, readVars,
                    cycle, dbVars, cycleVars, nodeVars, finished_ids >>

Next ==
    \/ StartCycle
    \/ FetchNodes
    \/ StoreNodes
    \/ ListNodes
    \/ LoopNext
    \/ CreateMeasurement
    \/ PollMeasurement
    \/ LogMeasurementResult
    \/ SendNotification
    \/ Backoff
    \/ StoreMeasurement
    \/ Pace
    \/ ExceptContinue
    \/ EndCycle
    \/ MainDigest
    \/ Sleep

Spec == Init /\ [][Next]_vars


\* ---------------------------------------------------- the result table

workerVars == << webhook, mainVars, syncVars, cycle, dbVars, cycleVars, nodeVars,
                 finished_ids >>

\* A buggy verdict whose latency threshold is inclusive.
Classify_ge(loss, avg) ==
    IF loss > 0 THEN "Failed"
    ELSE IF avg >= LatencyThreshold THEN "High Latency"
    ELSE "OK"

\* status = "OK"; if stats.get('loss', 0) > 0: "Failed";
\* elif stats.get('avg', 0) > 1000: "High Latency"
Classify(loss, avg) ==
    IF loss > 0 THEN "Failed"
    ELSE IF avg > LatencyThreshold THEN "High Latency"
    ELSE "OK"

\* the Status cell of a record; a record without 'result' gets no row
Verdict(rec) ==
    IF rec.shape = "nested" THEN Classify(rec.loss, rec.avg) ELSE "none"

\* log_measurement_result, one turn of: for probe_result in result['results']
RenderRow ==
    /\ pc = "render"
    /\ Len(verdicts) < Len(result.results)
    /\ verdicts' = Append(verdicts, Verdict(result.results[Len(verdicts) + 1]))
    /\ UNCHANGED << pc, workerVars, failing, report, message >>

\* log_measurement_result is entered with a finished payload
InitVerdict ==
    /\ webhook = FALSE
    /\ send_report = FALSE
    /\ mail = CompleteMail
    /\ AtRest
    /\ cycle = 1
    /\ pc = "render"
    /\ nodes = {}
    /\ measurements = {}
    /\ result \in ReadPayloads
    /\ archive = {}
    /\ lastUp = [n \in NodeIds |-> NoRow]

NextVerdict == RenderRow

SpecVerdict == InitVerdict /\ [][NextVerdict]_vars

\* generate_daily_report is called
GenerateReport ==
    /\ pc = "report"
    /\ report' = generate_daily_report(Clock(cycle))
    /\ pc' = "reported"
    /\ UNCHANGED << workerVars, verdicts, failing, message >>

\* The database when the second iteration builds its report: one node, up
\* to four measurements stored by this iteration and the one before.
ReportRowOptions ==
    { [absent |-> TRUE, created_at |-> 0, result |-> NoResult] }
    \cup [absent : {FALSE}, created_at : 1..2, result : ReportPayloads]

InitReport ==
    /\ webhook = FALSE
    /\ send_report = FALSE
    /\ mail = CompleteMail
    /\ AtRest
    /\ cycle = 2
    /\ pc = "report"
    /\ nodes = { [node_id |-> "n1", ipv6 |-> "a1", region |-> "r1", dc_name |-> "dc1"] }
    /\ \E f \in [ReportIds -> ReportRowOptions] :
          measurements =
             { [id |-> i, node_id |-> "n1", target |-> "a1",
                created_at |-> f[i].created_at, status |-> "finished",
                result |-> f[i].result] : i \in { j \in ReportIds : ~f[j].absent } }
    /\ result = NoResult
    /\ archive = measurements
    /\ lastUp = [n \in NodeIds |->
                   IF n = "n1"
                   THEN [node_id |-> "n1", ipv6 |-> "a1", region |-> "r1", dc_name |-> "dc1"]
                   ELSE NoRow]

NextReport == GenerateReport

SpecReport == InitReport /\ [][NextReport]_vars

\* ------------------------------------------------------------- queries

\* the rows of get_failing_nodes' SELECT: measurements joined with their
\* node, WHERE m.created_at > cutoff_time.isoformat()
QueryRows(now, hours) ==
    { p \in nodes \X measurements :
        p[1].node_id = p[2].node_id /\ InWindow(p[2], now, hours) }

\* if 'stats' in result: loss > 0 or avg > 1000
RecordFlagged(rec) ==
    rec.shape = "flat" /\ (rec.loss > 0 \/ rec.avg > LatencyThreshold)

\* get_failing_nodes: the nodes with a flagged record in a row of the SELECT
get_failing_nodes(now, hours) ==
    { p[1].node_id : p \in
        { q \in QueryRows(now, hours) :
            /\ q[2].result.hasResults
            /\ \E k \in 1..Len(q[2].result.results) :
                  RecordFlagged(q[2].result.results[k]) } }

\* GET /api/nodes/failing with the default hours
GetFailingNodes ==
    /\ pc = "query"
    /\ failing' = get_failing_nodes(Clock(cycle), WindowHours)
    /\ pc' = "answered"
    /\ UNCHANGED << workerVars, verdicts, report, message >>

\* The database when the query arrives: both nodes registered, up to two
\* measurements stored by earlier iterations.
StoredRows ==
    [id : MeasIds, node_id : NodeIds, target : {"a1"}, created_at : 1..MaxTicks,
     status : {"finished"}, result : WindowPayloads]

InitQuery ==
    /\ webhook = FALSE
    /\ send_report = FALSE
    /\ mail = CompleteMail
    /\ AtRest
    /\ cycle \in 1..MaxTicks
    /\ pc = "query"
    /\ nodes = { [node_id |-> n, ipv6 |-> "a1", region |-> "r1", dc_name |-> "dc1"] :
                   n \in NodeIds }
    /\ measurements \in
         { ms \in {{}} \cup { {a, b} : a, b \in { r \in StoredRows : r.created_at <= cycle } } :
             \A a, b \in ms : a.id = b.id => a = b }
    /\ result = NoResult
    /\ archive = measurements
    /\ lastUp = [n \in NodeIds |->
                   [node_id |-> n, ipv6 |-> "a1", region |-> "r1", dc_name |-> "dc1"]]

NextQuery == GetFailingNodes

SpecQuery == InitQuery /\ [][NextQuery]_vars

\* api.get_measurement: the row joined with its node, or 404
get_measurement(id) ==
    LET hits == { [id |-> m.id, node_id |-> m.node_id, target |-> m.target,
                   created_at |-> m.created_at, status |-> m.status,
                   result |-> m.result, region |-> n.region, dc_name |-> n.dc_name] :
                  <<m, n>> \in { p \in measurements \X nodes :
                                   p[1].id = id /\ p[2].node_id = p[1].node_id } }
    IN IF hits = {}
       THEN [found |-> FALSE, row |-> NoResult]
       ELSE [found |-> TRUE, row |-> CHOOSE h \in hits : TRUE]

\* ----------------------------------------------------- the alert text

\* r.get('result', {}).get('stats', {}).get('loss', 0) and the same for
\* 'avg': a record without 'result' reads as 0
AlertLoss(rec) == IF rec.shape = "nested" THEN rec.loss ELSE 0
AlertAvg(rec) == IF rec.shape = "nested" THEN rec.avg ELSE 0

\* the records listed under "Failed Probes"
failed_probes(res) ==
    { k \in 1..Len(res.results) : AlertLoss(res.results[k]) > 0 }

\* the records listed under "High Latency Probes"
high_latency_probes(res) ==
    { k \in 1..Len(res.results) : AlertAvg(res.results[k]) > LatencyThreshold }

\* the message: the detailed alert with its two lists, or the summary
AlertMessage(res) ==
    IF failed_probes(res) # {} \/ high_latency_probes(res) # {}
    THEN [kind |-> "detailed", failed |-> failed_probes(res),
          high |-> high_latency_probes(res)]
    ELSE [kind |-> "healthy", failed |-> {}, high |-> {}]

\* send_google_chat_notification composes the text it posts (the POST and
\* its retries are SendNotification's)
ComposeAlert ==
    /\ pc = "compose"
    /\ webhook
    /\ message' = AlertMessage(result)
    /\ pc' = "insert"
    /\ UNCHANGED << workerVars, verdicts, failing, report >>

\* the row store_measurement inserts for the alerted payload
AlertedRow ==
    [id |-> "m1", node_id |-> "n1", target |-> "a1", created_at |-> cycle,
     status |-> result.status, result |-> result]

\* store_measurement of the alerted payload; one of the readers comes next
StoreAlerted ==
    /\ pc = "insert"
    /\ measurements' = InsertMeasurement(measurements, AlertedRow).tbl
    /\ archive' = archive \cup {AlertedRow}
    /\ \E reader \in {"query", "report"} : pc' = reader
    /\ UNCHANGED << webhook, mainVars, syncVars, cycle, nodes, lastUp, cycleVars,
                    nodeVars, finished_ids, readVars >>

\* A measurement of node n1 has finished and its alert is due.
InitAlert ==
    /\ webhook = TRUE
    /\ send_report = FALSE
    /\ mail = CompleteMail
    /\ AtRest
    /\ cycle = 1
    /\ pc = "compose"
    /\ nodes = { [node_id |-> "n1", ipv6 |-> "a1", region |-> "r1", dc_name |-> "dc1"] }
    /\ measurements = {}
    /\ result \in ReadPayloads
    /\ archive = {}
    /\ lastUp = [n \in NodeIds |->
                   IF n = "n1"
                   THEN [node_id |-> "n1", ipv6 |-> "a1", region |-> "r1", dc_name |-> "dc1"]
                   ELSE NoRow]

NextAlert ==
    \/ ComposeAlert
    \/ StoreAlerted
    \/ GetFailingNodes
    \/ GenerateReport

SpecAlert == InitAlert /\ [][NextAlert]_vars

\* ---------------------------------------------------------- properties

CreatesIssued == { cyc[k].i : k \in { j \in 1..Len(cyc) : cyc[j].e = "create" } }
InProgress == {"Created", "Polling", "Classified"}
Terminal == {"Stored", "Abandoned"}
InNode == index \in DOMAIN lc
NodeOver == pc = "pace" \/ pc = "except"

\* C1: once the listing is taken, the cycle ends only after a
\* create-request was issued for every listed node, whichever nodes were
\* abandoned on the way; an exception in a node never aborts the cycle.
C1_FailureIsolation ==
    /\ pc = "cycle_done" => CreatesIssued = 1..Len(stored_nodes)
    /\ pc = "cycle_aborted" => stored_nodes = <<>>
    /\ pc = "except" => InNode /\ lc[index] = "Abandoned"

C1_Witness ==
    /\ pc = "cycle_done"
    /\ Len(lc) = 2
    /\ lc[1] = "Abandoned"
    /\ lc[2] = "Stored"
    /\ 2 \in CreatesIssued

\* C2: at most one node has a lifecycle in progress, and a node leaves
\* Pending (its create-request is issued) only when every earlier node of
\* the listing is Stored or Abandoned.
C2_Sequential ==
    /\ Cardinality({ i \in DOMAIN lc : lc[i] \in InProgress }) <= 1
    /\ \A i \in DOMAIN lc :
         lc[i] # "Pending" => \A j \in 1..(i-1) : lc[j] \in Terminal
    /\ pc = "create" => \A j \in 1..(index-1) : lc[j] \in Terminal

C2_Witness ==
    /\ Len(lc) = 2
    /\ lc[1] \in Terminal
    /\ lc[2] = "Polling"

\* C3 (as claimed): every create-request but the first of a cycle directly
\* follows the pacing sleep of the node before it, whatever that node's
\* outcome, and no pacing sleep follows the last node.
C3_PaceAfterEveryNode ==
    \A k \in 1..Len(cyc) :
      /\ (cyc[k].e = "create" /\ cyc[k].i > 1) =>
            (k > 1 /\ cyc[k-1] = [e |-> "pace", i |-> cyc[k].i - 1])
      /\ cyc[k].e = "pace" => cyc[k].i < Len(stored_nodes)

\* C4: an alert makes at most 5 POSTs; each backoff delay is twice the one
\* before; a send that was rate-limited to the end was attempted 5 times
\* and then returns, the node going on to be stored: it never raises.
C4_RateLimitRetry ==
    /\ attempt <= RetryLimit
    /\ Len(delays) = (IF attempt = 0 THEN 0 ELSE attempt - 1)
    /\ \A k \in 1..(Len(delays) - 1) :
         delays[k+1] = 2 * delays[k] /\ delays[k+1] > delays[k]
    /\ pc = "backoff" => attempt < RetryLimit
    /\ err # "notify"
    /\ (last_status = RateLimited /\ pc \notin {"notify", "backoff"}) =>
          /\ attempt = RetryLimit
          /\ pc = "store" \/ NodeOver
          /\ pc = "except" => err = "store"

C4_Witness ==
    /\ pc = "store"
    /\ last_status = RateLimited
    /\ attempt = 5
    /\ delays = << 2000, 4000, 8000, 16000 >>

\* C5: a POST that failed with anything but 429 is the last POST of its
\* measurement: a backoff only ever follows a 429.
C5_NoRetryOnOtherFailure ==
    /\ pc = "backoff" => last_status = RateLimited
    /\ last_status \in {500, -1} => pc \notin {"notify", "backoff"}

C5_Witness ==
    /\ pc = "store"
    /\ last_status = 500
    /\ attempt = 3

\* C6: every row ever inserted is still in the table unchanged, ids are
\* unique, and get-by-id returns the result that was inserted.
C6_AppendOnly ==
    /\ \A r \in archive :
         /\ r \in measurements
         /\ get_measurement(r.id).found
         /\ get_measurement(r.id).row.result = r.result
    /\ \A a, b \in measurements : a.id = b.id => a = b

C6_Witness ==
    /\ pc = "except"
    /\ err = "store"
    /\ ~InsertMeasurement(measurements, MeasurementRow).ok
    /\ \E r \in measurements : r.id = measurement_id /\ r.result # result

\* C7: every row has status "finished" and the id of a measurement whose
\* polling returned "finished".
C7_OnlyFinishedStored ==
    \A r \in measurements : r.status = "finished" /\ r.id \in finished_ids

C7_Witness ==
    /\ pc = "pace"
    /\ lc[index] = "Stored"
    /\ measurement_id \in finished_ids
    /\ \E r \in measurements : r.id = measurement_id /\ r.created_at = cycle

\* C8: logging and the alert dispatch, with its retries and backoff sleeps,
\* run after the terminal status was observed and before the row of the
\* same lifecycle is inserted.
C8_AlertBeforeStore ==
    /\ pc \in {"log", "notify", "backoff", "store"} =>
          /\ InNode
          /\ lc[index] = "Classified"
          /\ result.status = "finished"
    /\ (InNode /\ lc[index] = "Stored") => pc \in {"pace", "loop", "cycle_done"}

C8_Witness ==
    /\ pc = "pace"
    /\ lc[index] = "Stored"
    /\ delivered = 1
    /\ Len(delays) = 2

\* C9 (as claimed): with the webhook configured, every measurement whose
\* polling returned "finished" has had the alert path invoked exactly once
\* by the time its lifecycle is over, and at most one message delivered.
C9_AlertOncePerFinished ==
    (webhook /\ NodeOver /\ result.status = "finished") =>
        (invoked = 1 /\ delivered <= 1)

\* C9 (amended): the alert path is invoked at most once per measurement and
\* delivers at most one message; it is invoked exactly once when the
\* finished payload has a 'results' collection that log_measurement_result
\* renders without raising, and not at all when the payload has none.
C9_AlertOncePerResults ==
    /\ invoked <= 1
    /\ delivered <= invoked
    /\ delivered = 1 => last_status = 200
    /\ (pc = "store" \/ pc = "pace" \/ (pc = "except" /\ err = "store")) =>
          invoked = (IF result.hasResults THEN 1 ELSE 0)

C9_Witness ==
    /\ pc = "store"
    /\ webhook
    /\ invoked = 1
    /\ delivered = 1
    /\ attempt = 4

\* C10: the node table is exactly the last upsert of every node_id ever
\* upserted, one row each, and the listing of a cycle holds all of them,
\* also those absent from the cycle's fetch.
Upserted == { n \in NodeIds : lastUp[n] # NoRow }

C10_UpsertMerge ==
    /\ nodes = { lastUp[n] : n \in Upserted }
    /\ \A a, b \in nodes : a.node_id = b.node_id => a = b
    /\ pc \in {"loop", "create", "poll", "log", "notify", "backoff", "store",
               "pace", "except", "cycle_done"} =>
          /\ { stored_nodes[i].node_id : i \in 1..Len(stored_nodes) } = Upserted
          /\ Len(stored_nodes) = Cardinality(Upserted)

\* The second sync is committed: it named one node, whose address it
\* changed from the one probed in the first cycle, and not the other,
\* which is still in the table.
C10_Witness ==
    /\ cycle = 2
    /\ pc = "list"
    /\ Cardinality(nodes) = 2
    /\ \E n \in nodes : n.node_id \notin synced
    /\ \E r \in archive, n \in nodes :
         /\ r.created_at = 1
         /\ r.node_id = n.node_id
         /\ n.node_id \in synced
         /\ r.target # n.ipv6

\* C11: when the directory request fails, or its body has no 'nodes'
\* collection, or the collection is empty, fetch_nodes returns the empty
\* list, store_nodes commits nothing and leaves table nodes as it was, the
\* cycle is abandoned only if the database itself fails, and the listing
\* the cycle goes on with is the table of before the sync.
NothingFetched == resp_kind \in {"error", "malformed", "empty"}

C11_EmptyFetchTolerated ==
    NothingFetched =>
       /\ pc \in {"store_nodes", "list", "loop", "cycle_aborted"}
       /\ pc = "store_nodes" => fetched = <<>>
       /\ pc \in {"list", "loop"} => nodes = before /\ lastUp \in [NodeIds -> before \cup {NoRow}]
       /\ pc = "list" => synced = {}
       /\ pc = "loop" =>
            { stored_nodes[i] : i \in 1..Len(stored_nodes) }
              = { [node_id |-> r.node_id, ipv6 |-> r.ipv6] : r \in before }
       /\ pc = "cycle_aborted" => cycle_err = "storage"

\* The second cycle got a body without 'nodes' that carries a descriptor
\* elsewhere, and is about to probe the node stored by the first cycle.
C11_Witness ==
    /\ resp_kind = "malformed"
    /\ pc = "loop"
    /\ index = 0
    /\ cycle = 2
    /\ Len(stored_nodes) = 1
    /\ stored_nodes[1].node_id = "n2"

\* C12: a descriptor without an identifier or without an address is dropped
\* by the sync (it is not in the list handed to store_nodes), and it does
\* not make the sync fail: store_nodes never raises on account of an entry
\* of the response.  An address is lacking when the key is absent or null.
Lacking(v) == v \in {Missing, Null}

C12_InvalidEntryDropped ==
    /\ pc = "store_nodes" =>
          \A i \in 1..Len(fetched) :
             ~Lacking(fetched[i].node_id) /\ ~Lacking(fetched[i].ipv6)
    /\ cycle_err # "integrity"

\* C13: the verdict of a record is decided by its loss and its average RTT
\* alone: Failed when loss > 0, whatever the average; High Latency when
\* loss = 0 and the average is above 1000; OK when loss = 0 and the average
\* is at most 1000, 1000 itself included.
C13_VerdictFunction ==
    \A k \in 1..Len(verdicts) :
       LET rec == result.results[k] IN
       rec.shape = "nested" =>
          /\ verdicts[k] \in {"Failed", "High Latency", "OK"}
          /\ verdicts[k] = "Failed" <=> rec.loss > 0
          /\ verdicts[k] = "High Latency" <=> rec.loss = 0 /\ rec.avg > 1000
          /\ verdicts[k] = "OK" <=> rec.loss = 0 /\ rec.avg <= 1000

\* A table with a lossy slow record, a loss-free record at exactly 1000 and
\* a loss-free record at 1001.
C13_Witness ==
    /\ pc = "render"
    /\ Len(verdicts) = 3
    /\ result.results[1] = [shape |-> "nested", loss |-> 5, avg |-> 1001]
    /\ result.results[2] = [shape |-> "nested", loss |-> 0, avg |-> 1000]
    /\ result.results[3] = [shape |-> "nested", loss |-> 0, avg |-> 1001]
    /\ verdicts = << "Failed", "OK", "High Latency" >>

\* C14: the failing-nodes query with a window of 24 hours returns exactly
\* the nodes that have a measurement created less than 24 hours before the
\* query with a record that is Failed (loss > 0) or High Latency (average
\* above 1000), whatever came after that measurement.
FailingRecord(rec) == rec.loss > 0 \/ rec.avg > 1000

C14_FailingInWindow ==
    pc = "answered" =>
       failing = { n \in NodeIds :
                     \E m \in measurements :
                        /\ m.node_id = n
                        /\ Clock(m.created_at) > Clock(cycle) - 24
                        /\ \E k \in 1..Len(m.result.results) :
                              FailingRecord(m.result.results[k]) }

\* C15: in the report, the average latency of a node is the mean of the
\* average RTTs of its loss-free records of the last 24 hours; lossy
\* records add nothing to the sum or to the count.
RECURSIVE LossFree(_)
LossFree(recs) ==
    IF recs = <<>> THEN [sum |-> 0, count |-> 0]
    ELSE LET t == LossFree(Tail(recs)) IN
         IF Head(recs).loss = 0
         THEN [sum |-> t.sum + Head(recs).avg, count |-> t.count + 1]
         ELSE t

RECURSIVE LossFreeOf(_)
LossFreeOf(ms) ==
    IF ms = {} THEN [sum |-> 0, count |-> 0]
    ELSE LET m == CHOOSE x \in ms : TRUE
             t == LossFreeOf(ms \ {m})
             r == LossFree(m.result.results)
         IN  [sum |-> t.sum + r.sum, count |-> t.count + r.count]

Last24h(n) ==
    { m \in measurements : m.node_id = n /\ Clock(m.created_at) > Clock(cycle) - 24 }

Reported == { n \in NodeIds : Last24h(n) # {} /\ \E r \in nodes : r.node_id = n }

C15_MeanOfLossFree ==
    pc = "reported" =>
       /\ ~report.raised
       /\ DOMAIN report.stats = Reported
       /\ \A n \in Reported :
             report.stats[n].total_latency * LossFreeOf(Last24h(n)).count
               = LossFreeOf(Last24h(n)).sum * report.stats[n].latency_count

\* C16: in the report, the failure rate of a node is 100 k / N, where N is
\* the number of its measurements of the last 24 hours and k the number of
\* those that hold a failing record, however many such records they hold.
HoldsFailing(m) == \E k \in 1..Len(m.result.results) : FailingRecord(m.result.results[k])

C16_FailureRate ==
    pc = "reported" =>
       /\ ~report.raised
       /\ DOMAIN report.stats = Reported
       /\ \A n \in Reported :
             /\ report.stats[n].total_measurements = Cardinality(Last24h(n))
             /\ report.stats[n].failed_measurements
                  = Cardinality({ m \in Last24h(n) : HoldsFailing(m) })

\* C17 as stated: a storage failure of the node upsert, of the node listing
\* or of a measurement insert ends the cycle (no create-request follows
\* it), does not end the process, and the next iteration is run.
AfterCycle == {"cycle_aborted", "digest", "sleep", "main", "fetch", "exit"}

C17_StorageFailureEndsCycle ==
    /\ pc # "crashed"
    /\ cycle_err # "none" => pc \in AfterCycle
    /\ insert_failed => pc # "create"
    /\ pc = "exit" => send_report

\* C17, amended: a storage failure of the node upsert or of the node
\* listing ends the cycle before any node is probed, the exception does
\* not leave run_measurement_cycle, and main goes on to the digest and,
\* unless started with --send-report, to the next iteration; a failed
\* measurement insert abandons only its node, and the loop goes on.
C17_StorageFailure ==
    /\ pc # "crashed"
    /\ pc = "cycle_aborted" =>
          cycle_err \in {"storage", "integrity"} /\ cyc = <<>> /\ stored_nodes = <<>>
    /\ cycle_err # "none" => pc \in AfterCycle
    /\ pc = "exit" => send_report
    /\ insert_failed =>
          /\ pc \in {"except", "loop", "create", "cycle_done"}
          /\ cycle_err = "none"
          /\ lc[IF pc = "create" THEN index - 1 ELSE index] = "Abandoned"

\* The second iteration starts after the first one was abandoned because
\* the database was unavailable.
C17_Witness ==
    /\ pc = "fetch"
    /\ cycle = 2
    /\ cycle_err = "storage"
    /\ ~send_report

\* C18: when main has passed the digest step of an iteration, whatever
\* happened in the cycle, the report was due and send_email_report was
\* called for it; and a report that failed (building it or sending it)
\* leaves main where a sent one does: asleep before the next iteration, or
\* at its end under --send-report.
Invoked == {"skipped", "report_failed", "smtp_failed", "sent"}

C18_DigestAlwaysReached ==
    /\ pc # "crashed"
    /\ pc \in {"sleep", "exit"} =>
          /\ digest \in Invoked
          /\ last_report_time = Clock(cycle)
    /\ pc = "exit" <=> (send_report /\ digest # "none")
    /\ digest # "none" => pc \in {"sleep", "exit"}

\* The cycle was abandoned for want of the database, the report was due
\* and called, it failed too, and main sleeps until the next iteration.
C18_Witness ==
    /\ pc = "sleep"
    /\ cycle_err = "storage"
    /\ digest = "report_failed"
    /\ cycle = 1

\* C19: without a webhook no POST is made and the node is stored all the
\* same; without the SMTP user, the SMTP password or the recipients the
\* digest step connects to no SMTP server and raises nothing, and main
\* goes on.
MailUnconfigured ==
    \/ mail.smtp_user = Null
    \/ mail.smtp_password = Null
    \/ mail.recipients_env = Null

C19_AbsentConfigSkips ==
    /\ ~webhook => delivered = 0 /\ last_status = 0 /\ pc # "backoff"
    /\ MailUnconfigured => digest \notin {"sent", "smtp_failed"}
    /\ pc # "crashed"

\* C20: once the alert of a measurement has failed for good (a failure
\* other than 429, or a 429 at the last attempt), the next step of the node
\* is the insert of that measurement, and the node is Stored unless the
\* insert itself raises.
AlertFailed ==
    /\ last_status \notin {0, 200}
    /\ pc \notin {"notify", "backoff"}

C20_AlertFailureNotFatal ==
    AlertFailed =>
       /\ pc \in {"store", "pace", "except"}
       /\ pc = "store" => lc[index] = "Classified" /\ result.status = "finished"
       /\ pc = "pace" =>
             /\ lc[index] = "Stored"
             /\ \E r \in measurements :
                   /\ r.id = measurement_id
                   /\ r.node_id = stored_nodes[index].node_id
                   /\ r.result = result
       /\ pc = "except" => err = "store"

\* The alert of the second node was given up after the fifth 429, and the
\* node is stored.
C20_Witness ==
    /\ pc = "pace"
    /\ index = 2
    /\ last_status = RateLimited
    /\ attempt = RetryLimit
    /\ lc[index] = "Stored"
    /\ \E r \in measurements : r.id = measurement_id /\ r.created_at = cycle


\* ------------------------------------------------- polling and progress

\* The poll loop is left: the provider answered "finished" or the request
\* raised.
PollEnds == PollMeasurement /\ pc' # "poll"

\* One call of run_measurement_cycle by a fresh process.
NextInCycle ==
    \/ StartCycle
    \/ FetchNodes
    \/ StoreNodes
    \/ ListNodes
    \/ LoopNext
    \/ CreateMeasurement
    \/ PollMeasurement
    \/ LogMeasurementResult
    \/ SendNotification
    \/ Backoff
    \/ StoreMeasurement
    \/ Pace
    \/ ExceptContinue
    \/ EndCycle

\* Every step of the driver outside the poll loop is the program's own and
\* is taken; inside the loop the measurement eventually reports "finished"
\* or the request errors.
Progress ==
    /\ WF_vars(NextInCycle /\ pc # "poll")
    /\ WF_vars(PollEnds)

SpecLive == Init /\ [][NextInCycle]_vars /\ Progress

CreatesFor(i) == Cardinality({ k \in 1..Len(cyc) : cyc[k].e = "create" /\ cyc[k].i = i })
VisitedOnce ==
    /\ Len(lc) = Len(stored_nodes)
    /\ \A i \in 1..Len(stored_nodes) : CreatesFor(i) = 1 /\ lc[i] \in Terminal
StaysOrEnds ==
    InNode /\ lc[index] = "Polling" =>
        \/ pc' = "poll" /\ index' = index /\ lc'[index] = "Polling"
        \/ pc' = "log" /\ result'.status = "finished" /\ lc'[index] = "Classified"
        \/ pc' = "except" /\ err' = "poll" /\ lc'[index] = "Abandoned"

\* C21: a node is in Polling only while the driver sits in the poll loop of
\* that node, and it leaves Polling only with a "finished" answer or a
\* raised poll request, however many unfinished answers came before (there
\* is no timeout); later nodes stay Pending meanwhile. When every
\* measurement eventually reports "finished" or errors, a cycle whose
\* listing was taken eventually completes with exactly one create-request
\* for each listed node.
C21_PollingProgress ==
    /\ [][StaysOrEnds]_vars
    /\ [](InNode /\ lc[index] = "Polling" =>
            pc = "poll" /\ \A j \in (index+1)..Len(lc) : lc[j] = "Pending")
    /\ (pc = "loop" /\ index = 0) ~> (pc = "cycle_done" /\ VisitedOnce)

C21_Witness ==
    /\ pc = "poll"
    /\ polls = MaxPolls
    /\ Len(stored_nodes) = 2
    /\ index = 1
    /\ lc[1] = "Polling"
    /\ lc[2] = "Pending"

\* C22: in the composed alert every record has one verdict: the records
\* listed as Failed are those with loss > 0, the records listed as High
\* Latency are those with no loss and an average above 1000, no record is
\* in both lists, and the alert is the detailed one exactly when a record
\* is Failed or High Latency.
Composed == pc # "compose"

C22_OneVerdictPerRecord ==
    Composed =>
       /\ message.failed =
             { k \in 1..Len(result.results) : Verdict(result.results[k]) = "Failed" }
       /\ message.high =
             { k \in 1..Len(result.results) : Verdict(result.results[k]) = "High Latency" }
       /\ message.failed \cap message.high = {}
       /\ message.kind = "detailed" <=>
             \E k \in 1..Len(result.results) :
                Verdict(result.results[k]) \in {"Failed", "High Latency"}

\* C23: the report is built, and the failure rate of every node in it,
\* failed_measurements / total_measurements * 100, lies between 0 and 100,
\* whatever measurements the window holds and however many records each
\* of them has.
RateIsPercentage(st) ==
    /\ st.failed_measurements >= 0
    /\ st.failed_measurements * 100 <= 100 * st.total_measurements

C23_RateIsPercentage ==
    pc = "reported" =>
       /\ ~report.raised
       /\ \A n \in DOMAIN report.stats : RateIsPercentage(report.stats[n])

\* C24: the alert, the failing-nodes query and the report agree on the
\* stored measurement: when its alert was the detailed one, the query
\* returns its node and the report counts a failure for its node; when
\* its alert was the healthy summary, neither does.
AlertedFailing == message.kind = "detailed"
CountedFailing ==
    /\ ~report.raised
    /\ "n1" \in DOMAIN report.stats
    /\ report.stats["n1"].failed_measurements > 0

C24_ReadersAgree ==
    /\ pc = "answered" => (AlertedFailing <=> "n1" \in failing)
    /\ pc = "reported" => (AlertedFailing <=> CountedFailing)

\* C25 as stated: when the processing of a node is over, the measurement
\* whose alert was delivered has a row in table measurements.
RowOfAlerted == \E r \in measurements : r.id = measurement_id
AlertDelivered == NodeOver /\ delivered > 0

C25_AlertedIsStored == AlertDelivered => RowOfAlerted

\* C25: the alert is delivered before the insert. When the processing of a
\* node is over, the measurement whose alert was delivered had finished,
\* and it has a row in table measurements with the alerted payload unless
\* the insert raised: then the node is abandoned and the alert stays sent.
C25_AlertedStoredUnlessInsertFailed ==
    AlertDelivered =>
       /\ measurement_id \in finished_ids
       /\ \/ /\ pc = "pace"
             /\ lc[index] = "Stored"
             /\ MeasurementRow \in measurements
          \/ /\ pc = "except"
             /\ err = "store"
             /\ insert_failed
             /\ lc[index] = "Abandoned"

C25_Witness ==
    /\ pc = "except"
    /\ err = "store"
    /\ delivered = 1
    /\ ~RowOfAlerted

====
